---- MODULE Spec2Model ----
(***************************************************************************)
(* MyFridge (streamlit_app.py): a Streamlit script that is re-run top to   *)
(* bottom for every interaction of every browser session, and the "items" *)
(* table of the hosted store it reads and writes.                          *)
(*                                                                         *)
(* One script run of a session is cut at its calls to the store, which are *)
(* the only points where runs of different sessions can interleave; pc is  *)
(* the call the run issues next:                                           *)
(*   idle   --Start-------> add     when "Add Item" was clicked with a name*)
(*   idle   --Start-------> fetch   otherwise                              *)
(*   add    --AddItem-----> fetch   insert_item                            *)
(*   fetch  --FetchItems--> manage  a manage button was clicked and the    *)
(*                                  panel is rendered                      *)
(*   fetch  --FetchItems--> idle    otherwise: the script runs to its end  *)
(*   manage --UpdateItem/DeleteItem--> fetch   the call, then st.rerun()   *)
(***************************************************************************)
EXTENDS Integers, Sequences, FiniteSets

\* ---- bounds of the model ----
MaxId == 2          \* ids the store hands out while a single session runs the script
MaxSharedId == 1    \* ids the store hands out while two sessions race

Sessions == {1, 2}                 \* browser sessions running the script
FirstSession == CHOOSE s \in Sessions : \A o \in Sessions : s <= o
\* What the add form holds when a run starts: name (possibly empty), quantity
\* (st.number_input with min_value=1), the position picked in the shelf selector.
AddInputs ==
    {[name |-> "Milk", quantity |-> 1, pick |-> 1],
     [name |-> "Eggs", quantity |-> 2, pick |-> 5],
     [name |-> "", quantity |-> 1, pick |-> 1]}
\* What a user leaves in the edit widgets when clicking "Update Item": the
\* name field may have been emptied.
EditInputs ==
    {[name |-> "Eggs", quantity |-> 2, pick |-> 5],
     [name |-> "", quantity |-> 1, pick |-> 1]}
CfgValues == {"unset", "empty", "invalid", "valid"}  \* os.getenv outcomes

VARIABLES
    url, key,        \* SUPABASE_URL / SUPABASE_KEY as os.getenv returns them
    client,          \* st.cache_resource: TRUE once init_connection returned a handle
    table,           \* the store's "items" table: id -> row
    nextId,          \* the store's identity sequence for the id column
    pc,              \* per session: position of its script run
    button,          \* per session: the button whose click triggered the run
    form,            \* per session: the add form's values the run read
    items_df,        \* per session: result of the run's fetch_items()
    selected_id,     \* per session: value of the id selector (0 when not rendered)
    selected_item,   \* per session: <<>> for None, else <<row of items_df>>
    view,            \* per session, on the page: "none" | "grid" | "info" | "error"
    controls,        \* per session, on the page: the edit fields and both manage buttons
    notice,          \* per session: last st.success / st.error message
    pending,         \* history: the write the session's latest interaction issued
    maxSeen,         \* history: greatest id any fetch_items() has returned
    issued,          \* history: TRUE once any data-access call was issued
    direct           \* history: the latest data-access call made past the UI

vars == <<url, key, client, table, nextId, pc, button, form, items_df, selected_id,
          selected_item, view, controls, notice, pending, maxSeen, issued, direct>>

\* ---- the store and the four data-access functions ----

EmptyTable == [k \in {} |-> [name |-> "", quantity |-> 0, shelf |-> "", created_at |-> 0]]

\* (variant for C7: a misspelt option)
shelf_options_misspelt == <<"Top", "Middle", "Bottom", "Door", "Freezers">>

shelf_options == <<"Top", "Middle", "Bottom", "Door", "Freezer">>

\* st.selectbox(options): the option at the position the user picked
selectbox(options, i) == options[i]

Min(S) == CHOOSE x \in S : \A y \in S : x <= y

RECURSIVE OrderById(_, _)
OrderById(tbl, ids) ==
    IF ids = {} THEN <<>>
    ELSE LET k == Min(ids)
         IN <<[id |-> k, name |-> tbl[k].name, quantity |-> tbl[k].quantity,
               shelf |-> tbl[k].shelf, created_at |-> tbl[k].created_at]>>
            \o OrderById(tbl, ids \ {k})

Max(S) == CHOOSE x \in S : \A y \in S : x >= y

RECURSIVE OrderByIdDesc(_, _)
OrderByIdDesc(tbl, ids) ==
    IF ids = {} THEN <<>>
    ELSE LET k == Max(ids)
         IN <<[id |-> k, name |-> tbl[k].name, quantity |-> tbl[k].quantity,
               shelf |-> tbl[k].shelf, created_at |-> tbl[k].created_at]>>
            \o OrderByIdDesc(tbl, ids \ {k})

\* (variant for C4: .order("id", desc=True))
fetch_items_desc(tbl) == OrderByIdDesc(tbl, DOMAIN tbl)

\* supabase.table("items").select("*").order("id").execute()
fetch_items(tbl) == OrderById(tbl, DOMAIN tbl)

\* (variant for C1: the quantity left out of data, the column default stored)
insert_item_no_quantity(tbl, newid, name, quantity, shelf, now) ==
    [k \in DOMAIN tbl \cup {newid} |->
        IF k = newid
        THEN [name |-> name, quantity |-> 1, shelf |-> shelf, created_at |-> now]
        ELSE tbl[k]]

\* supabase.table("items").insert(data).execute(); the store assigns id newid
insert_item(tbl, newid, name, quantity, shelf, now) ==
    [k \in DOMAIN tbl \cup {newid} |->
        IF k = newid
        THEN [name |-> name, quantity |-> quantity, shelf |-> shelf, created_at |-> now]
        ELSE tbl[k]]

\* (variant for C2: the .eq("id", id) filter left out)
update_item_unfiltered(tbl, id, name, quantity, shelf) ==
    [k \in DOMAIN tbl |->
        [tbl[k] EXCEPT !.name = name, !.quantity = quantity, !.shelf = shelf]]

\* (variant for C8: upsert instead of update)
update_item_upsert(tbl, id, name, quantity, shelf) ==
    [k \in DOMAIN tbl \cup {id} |->
        IF k = id
        THEN [name |-> name, quantity |-> quantity, shelf |-> shelf,
              created_at |-> IF id \in DOMAIN tbl THEN tbl[id].created_at ELSE 0]
        ELSE tbl[k]]

\* (variant for C9: the shelf left out of data)
update_item_no_shelf(tbl, id, name, quantity, shelf) ==
    [k \in DOMAIN tbl |->
        IF k = id
        THEN [tbl[k] EXCEPT !.name = name, !.quantity = quantity]
        ELSE tbl[k]]

\* supabase.table("items").update(data).eq("id", id).execute()
update_item(tbl, id, name, quantity, shelf) ==
    [k \in DOMAIN tbl |->
        IF k = id
        THEN [tbl[k] EXCEPT !.name = name, !.quantity = quantity, !.shelf = shelf]
        ELSE tbl[k]]

\* (variant for C3: .neq in place of .eq)
delete_item_neq(tbl, id) == [k \in DOMAIN tbl \cap {id} |-> tbl[k]]

\* supabase.table("items").delete().eq("id", id).execute()
delete_item(tbl, id) == [k \in DOMAIN tbl \ {id} |-> tbl[k]]

\* ---- helpers of the view ----

item_ids(df) == {df[i].id : i \in 1 .. Len(df)}

RowOf(df, id) == df[CHOOSE i \in 1 .. Len(df) : df[i].id = id]

\* items_df[items_df["id"] == selected_id].iloc[0] if selected_id else None
select_item(df, id) == IF id # 0 THEN <<RowOf(df, id)>> ELSE <<>>

\* (variant for C10: index=0 always)
shelf_index_first(shelf) == 1

\* index=shelf_options.index(shelf) if shelf in shelf_options else 0
shelf_index(shelf) ==
    IF \E i \in 1 .. Len(shelf_options) : shelf_options[i] = shelf
    THEN CHOOSE i \in 1 .. Len(shelf_options) : shelf_options[i] = shelf
    ELSE 1

\* the values the three edit widgets show for the selected row
edit_defaults(row) ==
    [name |-> row.name, quantity |-> row.quantity,
     shelf |-> selectbox(shelf_options, shelf_index(row.shelf))]

\* (variant for C5: "if not url and not key")
credentials_missing_both(u, k) == u \in {"unset", "empty"} /\ k \in {"unset", "empty"}

\* "if not url or not key": None and "" are both falsy
credentials_missing(u, k) == u \in {"unset", "empty"} \/ k \in {"unset", "empty"}

\* create_client(url, key) raises on a value it cannot use
create_client_raises(u, k) == u # "valid" \/ k # "valid"

NoPending ==
    [op |-> "none", id |-> 0, name |-> "", quantity |-> 0, shelf |-> "",
     before |-> EmptyTable, maxSeen |-> 0, hit |-> FALSE, snap |-> <<>>]

NoCall == [op |-> "none", id |-> 0, shelf |-> ""]

NoForm == [name |-> "", quantity |-> 1, pick |-> 1]

Buttons == {"none", "add", "update", "delete"}

Init ==
    /\ url \in CfgValues
    /\ key \in CfgValues
    /\ client = FALSE
    /\ table = EmptyTable
    /\ nextId = 1
    /\ pc = [s \in Sessions |-> "idle"]
    /\ button = [s \in Sessions |-> "none"]
    /\ form = [s \in Sessions |-> NoForm]
    /\ items_df = [s \in Sessions |-> <<>>]
    /\ selected_id = [s \in Sessions |-> 0]
    /\ selected_item = [s \in Sessions |-> <<>>]
    /\ view = [s \in Sessions |-> "none"]
    /\ controls = [s \in Sessions |-> FALSE]
    /\ notice = [s \in Sessions |-> "none"]
    /\ pending = [s \in Sessions |-> NoPending]
    /\ maxSeen = 0
    /\ issued = FALSE
    /\ direct = NoCall

\* datetime.now().isoformat() as insert_item reads it: one reading per insert,
\* later inserts read later times
datetime_now == nextId

\* inserts that runs already past Start are going to issue
AddsInFlight == Cardinality({s \in Sessions : pc[s] = "add"})

\* "if add_button and item_name:"
add_taken(add_button, item_name) == add_button /\ item_name # ""

\* init_connection(): "found" when a handle is cached or create_client returns one
init_connection(cached, u, k) ==
    IF cached THEN "found"
    ELSE IF credentials_missing(u, k) THEN "credentials not found"
    ELSE IF create_client_raises(u, k) THEN "failed to connect"
    ELSE "found"

\* A session triggers a script run (page load, widget change or button click).
\* The run starts with init_connection() and stops there on an error; else it
\* reads the add form and goes on to its first call to the store.
Start(s, btn, in, cap) ==
    /\ pc[s] = "idle"
    /\ btn = "add" => view[s] \in {"grid", "info"}
    /\ btn \in {"update", "delete"} => controls[s]
    /\ btn # "add" => in = NoForm
    /\ add_taken(btn = "add", in.name) => nextId + AddsInFlight <= cap
    /\ LET got == init_connection(client, url, key)
       IN IF got = "found"
          THEN /\ client' = TRUE
               /\ pc' = [pc EXCEPT ![s] =
                     IF add_taken(btn = "add", in.name) THEN "add" ELSE "fetch"]
               /\ button' = [button EXCEPT ![s] = btn]
               /\ form' = [form EXCEPT ![s] =
                     IF add_taken(btn = "add", in.name) THEN in ELSE NoForm]
               /\ notice' = [notice EXCEPT ![s] = "none"]
               /\ UNCHANGED <<view, controls>>
          ELSE /\ notice' = [notice EXCEPT ![s] = got]
               /\ view' = [view EXCEPT ![s] = "error"]
               /\ controls' = [controls EXCEPT ![s] = FALSE]
               /\ UNCHANGED <<client, pc, button, form>>
    /\ items_df' = [items_df EXCEPT ![s] = <<>>]
    /\ selected_id' = [selected_id EXCEPT ![s] = 0]
    /\ selected_item' = [selected_item EXCEPT ![s] = <<>>]
    /\ pending' = [pending EXCEPT ![s] = NoPending]
    /\ UNCHANGED <<url, key, table, nextId, maxSeen, issued, direct>>

\* insert_item(item_name, quantity, shelf); st.success(...)
AddItem(s) ==
    /\ pc[s] = "add"
    /\ LET shelf == selectbox(shelf_options, form[s].pick)
       IN /\ table' = insert_item(table, nextId, form[s].name, form[s].quantity,
                                  shelf, datetime_now)
          /\ pending' = [pending EXCEPT ![s] =
                [op |-> "add", id |-> nextId, name |-> form[s].name,
                 quantity |-> form[s].quantity, shelf |-> shelf, before |-> table,
                 maxSeen |-> maxSeen, hit |-> TRUE, snap |-> <<>>]]
    /\ nextId' = nextId + 1
    /\ notice' = [notice EXCEPT ![s] = "added"]
    /\ pc' = [pc EXCEPT ![s] = "fetch"]
    /\ form' = [form EXCEPT ![s] = NoForm]
    /\ issued' = TRUE
    /\ UNCHANGED <<url, key, client, button, items_df, selected_id, selected_item,
                   view, controls, maxSeen, direct>>

\* items_df = fetch_items(); the grid or the info box; the id selector and the
\* selected row; then the manage buttons, or the end of the script
FetchItems(s) ==
    /\ pc[s] = "fetch"
    /\ LET df == fetch_items(table)
       IN /\ items_df' = [items_df EXCEPT ![s] = df]
          /\ IF df # <<>>
             THEN /\ view' = [view EXCEPT ![s] = "grid"]
                  /\ \E sel \in item_ids(df) :
                        /\ selected_id' = [selected_id EXCEPT ![s] = sel]
                        /\ selected_item' = [selected_item EXCEPT ![s] = select_item(df, sel)]
                  /\ maxSeen' = IF df[Len(df)].id > maxSeen THEN df[Len(df)].id ELSE maxSeen
             ELSE /\ view' = [view EXCEPT ![s] = "info"]
                  /\ selected_id' = [selected_id EXCEPT ![s] = 0]
                  /\ selected_item' = [selected_item EXCEPT ![s] = <<>>]
                  /\ UNCHANGED maxSeen
    /\ controls' = [controls EXCEPT ![s] = selected_item'[s] # <<>>]
    /\ IF selected_item'[s] # <<>> /\ button[s] \in {"update", "delete"}
       THEN /\ pc' = [pc EXCEPT ![s] = "manage"]
            /\ UNCHANGED button
       ELSE /\ pc' = [pc EXCEPT ![s] = "idle"]
            /\ button' = [button EXCEPT ![s] = "none"]
    /\ issued' = TRUE
    /\ UNCHANGED <<url, key, client, table, nextId, form, notice, pending, direct>>

\* if st.button("Update Item"): update_item(...); st.success(...); st.rerun()
UpdateItem(s, edit_name, edit_quantity, edit_shelf) ==
    /\ pc[s] = "manage"
    /\ button[s] = "update"
    /\ table' = update_item(table, selected_id[s], edit_name, edit_quantity, edit_shelf)
    /\ notice' = [notice EXCEPT ![s] = "updated"]
    /\ pc' = [pc EXCEPT ![s] = "fetch"]
    /\ button' = [button EXCEPT ![s] = "none"]
    /\ pending' = [pending EXCEPT ![s] =
          [op |-> "update", id |-> selected_id[s], name |-> edit_name,
           quantity |-> edit_quantity, shelf |-> edit_shelf, before |-> table,
           maxSeen |-> 0, hit |-> selected_id[s] \in DOMAIN table,
           snap |-> selected_item[s]]]
    /\ items_df' = [items_df EXCEPT ![s] = <<>>]
    /\ selected_id' = [selected_id EXCEPT ![s] = 0]
    /\ selected_item' = [selected_item EXCEPT ![s] = <<>>]
    /\ issued' = TRUE
    /\ UNCHANGED <<url, key, client, nextId, form, view, controls, maxSeen, direct>>

\* if st.button("Delete Item"): delete_item(selected_id); st.success(...); st.rerun()
DeleteItem(s) ==
    /\ pc[s] = "manage"
    /\ button[s] = "delete"
    /\ table' = delete_item(table, selected_id[s])
    /\ notice' = [notice EXCEPT ![s] = "deleted"]
    /\ pc' = [pc EXCEPT ![s] = "fetch"]
    /\ button' = [button EXCEPT ![s] = "none"]
    /\ pending' = [pending EXCEPT ![s] =
          [op |-> "delete", id |-> selected_id[s], name |-> "", quantity |-> 0,
           shelf |-> "", before |-> table, maxSeen |-> 0,
           hit |-> selected_id[s] \in DOMAIN table, snap |-> <<>>]]
    /\ items_df' = [items_df EXCEPT ![s] = <<>>]
    /\ selected_id' = [selected_id EXCEPT ![s] = 0]
    /\ selected_item' = [selected_item EXCEPT ![s] = <<>>]
    /\ issued' = TRUE
    /\ UNCHANGED <<url, key, client, nextId, form, view, controls, maxSeen, direct>>

StartRun(s, cap) == \E btn \in Buttons, in \in AddInputs \cup {NoForm} : Start(s, btn, in, cap)

Update(s) ==
    \E in \in EditInputs :
        UpdateItem(s, in.name, in.quantity, selectbox(shelf_options, in.pick))

\* two sessions, every interleaving of their calls to the store
Next ==
    \/ \E s \in Sessions : StartRun(s, MaxSharedId)
    \/ \E s \in Sessions : AddItem(s)
    \/ \E s \in Sessions : FetchItems(s)
    \/ \E s \in Sessions : Update(s)
    \/ \E s \in Sessions : DeleteItem(s)

Spec == Init /\ [][Next]_vars

\* one session alone: the single-user use the application is written for
NextSeq ==
    \/ StartRun(FirstSession, MaxId)
    \/ AddItem(FirstSession)
    \/ FetchItems(FirstSession)
    \/ Update(FirstSession)
    \/ DeleteItem(FirstSession)

SpecSeq == Init /\ [][NextSeq]_vars

\* ---- the data-access functions called past the UI ----

\* what a direct caller passes: any text as shelf
DirectInputs ==
    {[name |-> "Milk", quantity |-> 1, shelf |-> "Cellar"]}

\* insert_item(name, quantity, shelf) called directly
DirectInsert(in) ==
    /\ client
    /\ nextId + AddsInFlight <= MaxId
    /\ table' = insert_item(table, nextId, in.name, in.quantity, in.shelf, datetime_now)
    /\ nextId' = nextId + 1
    /\ direct' = [op |-> "insert", id |-> nextId, shelf |-> in.shelf]
    /\ issued' = TRUE
    /\ UNCHANGED <<url, key, client, pc, button, form, items_df, selected_id,
                   selected_item, view, controls, notice, pending, maxSeen>>

\* update_item(id, name, quantity, shelf) called directly
DirectUpdate(id, in) ==
    /\ client
    /\ table' = update_item(table, id, in.name, in.quantity, in.shelf)
    /\ direct' = [op |-> "update", id |-> id, shelf |-> in.shelf]
    /\ issued' = TRUE
    /\ UNCHANGED <<url, key, client, nextId, pc, button, form, items_df, selected_id,
                   selected_item, view, controls, notice, pending, maxSeen>>

\* one session, and direct calls between its calls
NextDirect ==
    \/ StartRun(FirstSession, MaxId)
    \/ AddItem(FirstSession)
    \/ FetchItems(FirstSession)
    \/ Update(FirstSession)
    \/ DeleteItem(FirstSession)
    \/ \E in \in DirectInputs : DirectInsert(in)
    \/ \E id \in 1 .. MaxId, in \in DirectInputs : DirectUpdate(id, in)

SpecDirect == Init /\ [][NextDirect]_vars

\* ---- properties ----

\* the fixed set of shelves the specification names
FixedShelves == {"Top", "Middle", "Bottom", "Door", "Freezer"}

\* the row of the fetched frame df that carries id k, as a table row
Fetched(df, k) ==
    LET r == RowOf(df, k)
    IN [name |-> r.name, quantity |-> r.quantity, shelf |-> r.shelf,
        created_at |-> r.created_at]

\* session s has finished the interaction in which it issued a write of kind op
Settled(s, op) == pc[s] = "idle" /\ view[s] \in {"grid", "info"} /\ pending[s].op = op

\* C1: after a valid (name, quantity, shelf) is submitted with "Add Item", the
\* fetch-all of the same interaction holds exactly one row that was not in the
\* table before; it carries the submitted name, quantity and shelf and an id
\* greater than every id an earlier fetch-all returned; every row that was in
\* the table before is in the result, unchanged.
C1_AddAppearsInFetch ==
    \A s \in Sessions :
        Settled(s, "add") =>
            LET p == pending[s]
                df == items_df[s]
                fresh == {i \in 1 .. Len(df) : df[i].id \notin DOMAIN p.before}
            IN /\ Cardinality(fresh) = 1
               /\ Len(df) = Cardinality(DOMAIN p.before) + 1
               /\ \A i \in fresh :
                     /\ df[i].name = p.name
                     /\ df[i].quantity = p.quantity
                     /\ df[i].shelf = p.shelf
                     /\ df[i].id > p.maxSeen
               /\ \A k \in DOMAIN p.before :
                     k \in item_ids(df) /\ Fetched(df, k) = p.before[k]

\* C1 witness: a valid triple was added to a table that already held a row an
\* earlier fetch-all had returned
C1_Witness ==
    \E s \in Sessions :
        /\ Settled(s, "add")
        /\ pending[s].name # "" /\ pending[s].quantity >= 1
        /\ pending[s].shelf \in FixedShelves
        /\ DOMAIN pending[s].before # {}
        /\ pending[s].maxSeen >= 1

\* C2: an update of an existing row sets that row's name, quantity and shelf
\* to the new values, keeps its id and created_at, keeps every other row and
\* the set of ids, and the next fetch-all returns exactly that table.
C2_UpdateChangesOneRow ==
    \A s \in Sessions :
        Settled(s, "update") /\ pending[s].hit =>
            LET p == pending[s]
                df == items_df[s]
            IN /\ item_ids(df) = DOMAIN p.before
               /\ Len(df) = Cardinality(DOMAIN p.before)
               /\ Fetched(df, p.id) =
                     [name |-> p.name, quantity |-> p.quantity, shelf |-> p.shelf,
                      created_at |-> p.before[p.id].created_at]
               /\ \A k \in DOMAIN p.before \ {p.id} : Fetched(df, k) = p.before[k]

\* C2 witness: a row of a two-row table got a new name, quantity and shelf
C2_Witness ==
    \E s \in Sessions :
        /\ Settled(s, "update") /\ pending[s].hit
        /\ Cardinality(DOMAIN pending[s].before) = 2
        /\ pending[s].before[pending[s].id].name # pending[s].name
        /\ pending[s].before[pending[s].id].quantity # pending[s].quantity
        /\ pending[s].before[pending[s].id].shelf # pending[s].shelf

\* C3: a delete of an existing row removes that row only: the next fetch-all
\* lacks its id, holds every other row unchanged, and is one row shorter.
C3_DeleteRemovesOneRow ==
    \A s \in Sessions :
        Settled(s, "delete") /\ pending[s].hit =>
            LET p == pending[s]
                df == items_df[s]
            IN /\ p.id \notin item_ids(df)
               /\ Len(df) = Cardinality(DOMAIN p.before) - 1
               /\ \A k \in DOMAIN p.before \ {p.id} :
                     k \in item_ids(df) /\ Fetched(df, k) = p.before[k]

\* C3 witness: one row of a two-row table was deleted
C3_Witness ==
    \E s \in Sessions :
        /\ Settled(s, "delete") /\ pending[s].hit
        /\ Cardinality(DOMAIN pending[s].before) = 2
        /\ Len(items_df[s]) = 1

\* C4: a fetch-all returns every row of the table, each once, in strictly
\* ascending id order; of an empty table it returns the empty sequence, and
\* the page then shows the "no items" info and neither grid nor controls.
C4_FetchAllOrdered ==
    \A s \in Sessions :
        pc[s] \in {"idle", "manage"} /\ view[s] \in {"grid", "info"} =>
            LET df == items_df[s]
            IN /\ Len(df) = Cardinality(DOMAIN table)
               /\ item_ids(df) = DOMAIN table
               /\ \A i \in 1 .. Len(df) :
                     /\ table[df[i].id] =
                           [name |-> df[i].name, quantity |-> df[i].quantity,
                            shelf |-> df[i].shelf, created_at |-> df[i].created_at]
                     /\ \A j \in 1 .. Len(df) : i < j => df[i].id < df[j].id
               /\ table = EmptyTable =>
                     /\ df = <<>>
                     /\ view[s] = "info"
                     /\ ~controls[s]
                     /\ selected_item[s] = <<>>
               /\ table # EmptyTable => view[s] = "grid"

\* C4 witness: a fetch-all of two rows, and a fetch-all of a table emptied again
C4_Witness ==
    \E s \in Sessions :
        /\ pc[s] = "idle"
        /\ \/ Len(items_df[s]) = 2
           \/ view[s] = "info" /\ nextId > 1 /\ table = EmptyTable

\* C5: when the URL or the key is unset or empty, every run stops at the
\* credentials error: no handle is ever created and no fetch-all, insert,
\* update or delete is ever issued.
C5_MissingCredentialsHalt ==
    (url \in {"unset", "empty"} \/ key \in {"unset", "empty"}) =>
        /\ ~client
        /\ ~issued
        /\ table = EmptyTable
        /\ \A s \in Sessions :
              /\ pc[s] = "idle"
              /\ view[s] \in {"none", "error"}
              /\ notice[s] \in {"none", "credentials not found"}
              /\ view[s] = "error" => notice[s] = "credentials not found"

\* C5 witness: a run stopped at the credentials error with only the URL missing
C5_Witness ==
    \E s \in Sessions :
        /\ url = "unset" /\ key = "valid"
        /\ view[s] = "error" /\ notice[s] = "credentials not found"

\* C6: starting from the empty table, after any sequence of UI interactions
\* every row of the table has a non-empty name.
C6_NamesNonEmpty == \A k \in DOMAIN table : table[k].name # ""

\* the shelf every write issued through the UI carried is one of the fixed set
UIShelvesFixed ==
    \A s \in Sessions :
        pending[s].op \in {"add", "update"} => pending[s].shelf \in FixedShelves

\* a direct call stores the shelf it was given, whatever it is
DirectShelfStored ==
    direct' # direct =>
        /\ direct'.op = "insert" => direct'.id \in DOMAIN table'
        /\ direct'.id \in DOMAIN table' => table'[direct'.id].shelf = direct'.shelf

\* C7: every insert and update issued through the UI carries a shelf of the
\* fixed set, while insert_item and update_item called directly with another
\* shelf store it unchanged.
C7_ShelfClosedInUIOnly == []UIShelvesFixed /\ [][DirectShelfStored]_vars

\* C7 witness: a row holds the out-of-set shelf a direct call gave it, and the
\* UI has issued a write as well
C7_Witness ==
    /\ direct.op # "none"
    /\ direct.shelf \notin FixedShelves
    /\ direct.id \in DOMAIN table
    /\ table[direct.id].shelf = direct.shelf
    /\ \E s \in Sessions : pending[s].op \in {"add", "update"}

\* session s issues its update_item call in this step
UpdateStep(s) == pc[s] = "manage" /\ button[s] = "update" /\ pc'[s] = "fetch"

\* C8: an update whose id is not in the table changes no row and creates none,
\* and the interaction goes on as after any update: success notice and rerun.
C8_UpdateOfMissingId ==
    [][\A s \in Sessions :
          UpdateStep(s) /\ selected_id[s] \notin DOMAIN table =>
              /\ table' = table
              /\ notice'[s] = "updated"
              /\ button'[s] = "none"]_vars

\* C8 witness: a session updated a row another session had deleted after the
\* first one fetched it
C8_Witness ==
    \E s \in Sessions :
        /\ pending[s].op = "update"
        /\ ~pending[s].hit
        /\ pending[s].snap # <<>>
        /\ notice[s] = "updated"

\* C9: when a session updates a row that the other session has updated too,
\* the update is carried out whatever the session had fetched, and the row's
\* name, quantity and shelf are then those of this, the later, update.
C9_LastWriteWins ==
    [][\A s, t \in Sessions :
          /\ s # t
          /\ UpdateStep(s)
          /\ selected_id[s] \in DOMAIN table
          /\ pending[t].op = "update"
          /\ pending[t].id = selected_id[s]
          => /\ pending'[s].op = "update"
             /\ notice'[s] = "updated"
             /\ table'[selected_id[s]].name = pending'[s].name
             /\ table'[selected_id[s]].quantity = pending'[s].quantity
             /\ table'[selected_id[s]].shelf = pending'[s].shelf
             /\ pending'[t] = pending[t]]_vars

\* C9 witness: both sessions fetched the same row, then each updated it with
\* different values; the row holds the values of the update issued last
C9_Witness ==
    \E s, t \in Sessions :
        /\ s # t
        /\ pending[s].op = "update" /\ pending[t].op = "update"
        /\ pending[s].id = pending[t].id
        /\ pending[s].snap # <<>> /\ pending[s].snap = pending[t].snap
        /\ pending[s].name # pending[t].name
        /\ pending[s].quantity # pending[t].quantity
        /\ pending[s].shelf # pending[t].shelf
        /\ pending[s].id \in DOMAIN pending[t].before
        /\ pending[t].before[pending[s].id].name = pending[s].name
        /\ pending[t].before[pending[s].id].name # pending[t].snap[1].name
        /\ pending[t].id \in DOMAIN table
        /\ table[pending[t].id].name = pending[t].name
        /\ table[pending[t].id].quantity = pending[t].quantity
        /\ table[pending[t].id].shelf = pending[t].shelf

====
